---- MODULE Spec2Model ----
(***************************************************************************)
(* The request/response correlation layer of the Canva MCP client          *)
(* (class CanvaMCPClient) and the mock MCP server that answers it.         *)
(*                                                                         *)
(* JavaScript runs every event handler and timer callback to completion,   *)
(* and the promise reactions it triggers (the code after an `await`) run   *)
(* before the next event or timer.  One action of this module is therefore *)
(* one handler together with the continuations it releases.                *)
(***************************************************************************)
EXTENDS Integers, Sequences, FiniteSets, TLC

----------------------------------------------------------------------------
(* Bounds of the exploration *)

\* sockets the client creates in one behaviour of Spec and of SpecReconnect
\* (SpecReconnect: sockets whose handshake the network lets take time)
MaxSockets == 2
\* sockets the client creates in one behaviour of SpecCalls
MaxCallSockets == 1
\* sendRequest invocations in one behaviour
MaxCalls == 2

----------------------------------------------------------------------------
(* Program constants *)

maxReconnectAttempts == 5
reconnectDelay == 1000
CONNECT_TIMEOUT == 10000
REQUEST_TIMEOUT == 30000
POLL_INTERVAL == 100
CREATE_DELAY == 1000
METHOD_NOT_FOUND == -32601
NOT_FOUND == 404
PARSE_ERROR == -32700
AI_DELAY == 2000
TEMPLATE_DELAY == 1500

\* timeoutMs values a caller asks for
TimeoutInputs == {50}

\* the design the server's store holds at start-up ('design_001'); the ids
\* made from Date.now() are the clock values, which are all larger
PRELOADED == 0
MISSING == PRELOADED - 1

\* the (method, params) pairs the callers use
Requests ==
  { [method |-> "ping", arg |-> 0],
    [method |-> "canva.design.get", arg |-> PRELOADED],
    [method |-> "canva.design.get", arg |-> MISSING],
    [method |-> "canva.design.create", arg |-> 0],
    [method |-> "no.such.method", arg |-> 0] }

PingRequests == { [method |-> "ping", arg |-> 0] }

KnownRequests ==
  { [method |-> "ping", arg |-> 0],
    [method |-> "canva.design.create", arg |-> 0] }

VARIABLES
  ws,                 \* this.ws: 0 is null, REFUSED a socket that was refused at once, otherwise an index of socks
  socks,              \* the other WebSockets the client created, each with the promise of the connect() that created it
  requestId,          \* this.requestId
  pendingRequests,    \* the keys of this.pendingRequests
  reconnectAttempts,  \* this.reconnectAttempts
  isConnecting,       \* this.isConnecting
  timers,             \* the client's outstanding setTimeout timers, in the order they were set
  calls,              \* one record per sendRequest invocation
  c2s,                \* request frames on their way to the server
  srvTimers,          \* the server's outstanding setTimeout timers (delayed responses)
  s2c,                \* response frames on their way to the client
  mockDesigns,        \* the server's design store: id -> title
  now,                \* the server's clock
  produced,           \* history: the response the server made for each request id
  userDisconnected,   \* history: the caller's last connection request was disconnect()
  runDelays           \* history: the delays of the timers that opened a socket since the last onopen, one per socket

vars == << ws, socks, requestId, pendingRequests, reconnectAttempts, isConnecting,
           timers, calls, c2s, srvTimers, s2c, mockDesigns, now, produced,
           userDisconnected, runDelays >>

serverVars == << srvTimers, mockDesigns, now, produced >>

----------------------------------------------------------------------------
(* Helpers *)

RECURSIVE Pow2(_)
Pow2(n) == IF n <= 0 THEN 1 ELSE 2 * Pow2(n - 1)

RemoveAt(seq, i) == SubSeq(seq, 1, i - 1) \o SubSeq(seq, i + 1, Len(seq))

SelectIdx(seq, Test(_)) == { i \in 1..Len(seq) : Test(seq[i]) }

Min(S) == CHOOSE x \in S : \A y \in S : x <= y

\* A timer set earlier with a delay that is no longer fires first.
Fireable(seq, i) == \A j \in 1..(i - 1) : seq[j].delay > seq[i].delay

NoOutcome == [kind |-> "none", name |-> "", code |-> "", message |-> "", errcode |-> 0, result |-> [kind |-> "none", design |-> 0, title |-> 0]]

Resolved(result) == [NoOutcome EXCEPT !.kind = "resolve", !.result = result]

\* new Error(message): carries a message and nothing else
PlainError(message) == [NoOutcome EXCEPT !.kind = "reject", !.name = "Error", !.message = message]

\* MCPConnectionError: the class's code field defaults to CONNECTION_FAILED
MCPConnectionError(message) ==
  [NoOutcome EXCEPT !.kind = "reject", !.name = "MCPConnectionError",
                    !.code = "CONNECTION_FAILED", !.message = message]

\* the client's fields and the frames it has written, as one value
Cur ==
  [ ws |-> ws, socks |-> socks, requestId |-> requestId,
    pendingRequests |-> pendingRequests, reconnectAttempts |-> reconnectAttempts,
    isConnecting |-> isConnecting, timers |-> timers, calls |-> calls,
    c2s |-> c2s, runDelays |-> runDelays ]

\* The same program state written in one way only: a closed socket keeps
\* nothing but its being closed, and a settled connect() promise no longer
\* names who awaited it (nothing runs for them any more); the 10 s timer of a
\* settled promise can still clear isConnecting, whichever socket it came from.
NormalSock(r) ==
  IF r.phase = "CLOSED"
  THEN [phase |-> "CLOSED", promise |-> "settled", who |-> "", ref |-> 0,
        auto |-> FALSE]
  ELSE IF r.promise # "pending" THEN [r EXCEPT !.who = "", !.ref = 0]
  ELSE r

NormalTimer(t, ss) ==
  IF t.kind = "connect" /\ t.ref # 0 /\ ss[t.ref].promise # "pending"
  THEN [t EXCEPT !.ref = 0]
  ELSE t

Commit(m) ==
  /\ ws' = m.ws
  /\ socks' = [s \in 1..Len(m.socks) |-> NormalSock(m.socks[s])]
  /\ requestId' = m.requestId
  /\ pendingRequests' = m.pendingRequests
  /\ reconnectAttempts' = m.reconnectAttempts
  /\ isConnecting' = m.isConnecting
  /\ timers' = [i \in 1..Len(m.timers) |-> NormalTimer(m.timers[i], m.socks)]
  /\ calls' = m.calls
  /\ c2s' = m.c2s
  /\ runDelays' = m.runDelays

REFUSED == 0 - 1

IsOpen(m) == m.ws > 0 /\ m.socks[m.ws].phase = "OPEN"

CallOf(m, id) == CHOOSE c \in 1..Len(m.calls) : m.calls[c].id = id

\* resolve or reject of a call's promise is invoked: only the first one decides the outcome
Settle(m, c, how, outcome) ==
  [m EXCEPT !.calls[c].settles = Append(@, how),
            !.calls[c].outcome = IF @.kind = "none" THEN outcome ELSE @]

ClearTimeout(seq, kind, ref) ==
  SelectSeq(seq, LAMBDA t : ~(t.kind = kind /\ t.ref = ref))

Caller == [who |-> "caller", ref |-> 0]
Reconnector == [who |-> "reconnect", ref |-> 0]
CallWaiter(c) == [who |-> "call", ref |-> c]

----------------------------------------------------------------------------
(* CanvaMCPClient *)

\* an attemptReconnection() that counts the attempt and sets no timer
attemptReconnectionCountsOnly(m) ==
  IF m.reconnectAttempts >= maxReconnectAttempts
  THEN m
  ELSE [m EXCEPT !.reconnectAttempts = @ + 1]

\* attemptReconnection(): gives up at maxReconnectAttempts, otherwise counts the
\* attempt and sets the timer that will call connect()
attemptReconnection(m) ==
  IF m.reconnectAttempts >= maxReconnectAttempts
  THEN m
  ELSE LET k == m.reconnectAttempts + 1
           delay == reconnectDelay * Pow2(k - 1)
       IN [m EXCEPT !.reconnectAttempts = k,
                    !.timers = Append(@, [kind |-> "reconnect", who |-> "", ref |-> k, delay |-> delay])]

\* handleDisconnection(): rejects and forgets every pending request, then
\* starts a reconnection
RECURSIVE RejectAll(_, _)
RejectAll(m, ids) ==
  IF ids = {} THEN m
  ELSE LET id == Min(ids)
           m1 == [m EXCEPT !.timers = ClearTimeout(@, "request", id)]
       IN RejectAll(Settle(m1, CallOf(m, id), "lost", MCPConnectionError("Connection lost")),
                    ids \ {id})

\* a handleDisconnection() that empties the table without rejecting anyone
handleDisconnectionForgets(m) ==
  attemptReconnection([m EXCEPT !.pendingRequests = {}])

handleDisconnection(m) ==
  attemptReconnection([RejectAll(m, m.pendingRequests) EXCEPT !.pendingRequests = {}])

\* sendRequest() from `const id = ++this.requestId` on: the timer, the table
\* entry and the write to the socket.  send() throws on a socket that is still
\* CONNECTING (and on null), which rejects the promise from inside its
\* executor; on a CLOSING or CLOSED socket the frame is discarded.
sendRequestIssue(m, c) ==
  LET id == m.requestId + 1
      m1 == [m EXCEPT !.requestId = id,
                      !.calls[c].id = id,
                      !.calls[c].st = "issued",
                      !.timers = Append(@, [kind |-> "request", who |-> "", ref |-> id,
                                            delay |-> REQUEST_TIMEOUT]),
                      !.pendingRequests = @ \cup {id}]
      frame == [sock |-> m.ws, shape |-> "object", id |-> id, method |-> m.calls[c].method,
                params |-> TRUE, arg |-> m.calls[c].arg]
  IN IF m.ws = 0 \/ (m.ws > 0 /\ m.socks[m.ws].phase = "CONNECTING")
     THEN Settle(m1, c, "sendfail", PlainError("WebSocket is not open"))
     ELSE IF IsOpen(m)
          THEN [m1 EXCEPT !.c2s = Append(@, frame)]
          ELSE m1

\* What runs when the promise a connect() returned is settled: the code after
\* `await this.connect()` in sendRequest and in the reconnection timer.
Resume(m, w, ok, err) ==
  CASE w.who = "reconnect" -> IF ok THEN m ELSE attemptReconnection(m)
    [] w.who = "call" ->
         IF ok THEN sendRequestIssue(m, w.ref)
         ELSE [m EXCEPT !.calls[w.ref].st = "connectFailed",
                        !.calls[w.ref].outcome = err]
    [] OTHER -> m

\* connect(): nothing to do on an open socket; joins an attempt in flight by
\* polling every 100 ms; otherwise opens a socket and sets the 10 s timer
connect(m, w, delay) ==
  IF IsOpen(m) THEN Resume(m, w, TRUE, NoOutcome)
  ELSE IF m.isConnecting
  THEN [m EXCEPT !.timers = Append(@, [kind |-> "poll", who |-> w.who, ref |-> w.ref,
                                       delay |-> POLL_INTERVAL])]
  ELSE LET s == Len(m.socks) + 1
           auto == w.who = "reconnect"
       IN [m EXCEPT !.isConnecting = TRUE,
                    !.socks = Append(@, [phase |-> "CONNECTING", promise |-> "pending",
                                         who |-> w.who, ref |-> w.ref, auto |-> auto]),
                    !.ws = s,
                    !.runDelays = IF auto THEN Append(@, delay) ELSE @,
                    !.timers = Append(@, [kind |-> "connect", who |-> "", ref |-> s,
                                          delay |-> CONNECT_TIMEOUT])]

\* WebSocket.close(): a socket that is still connecting aborts its handshake
\* (error and close events follow), an open one starts the closing handshake
Close(phase) ==
  CASE phase = "CONNECTING" -> "ABORTING"
    [] phase = "OPEN" -> "CLOSING"
    [] OTHER -> phase

\* a disconnect() that also restarts the id counter
disconnectRestartsIds(m) ==
  LET m1 == IF m.ws > 0
            THEN [m EXCEPT !.socks[m.ws].phase = Close(@), !.ws = 0]
            ELSE [m EXCEPT !.ws = 0]
  IN [m1 EXCEPT !.pendingRequests = {}, !.requestId = 0]

\* disconnect(): closes and drops the socket, empties the table
disconnect(m) ==
  LET m1 == IF m.ws > 0
            THEN [m EXCEPT !.socks[m.ws].phase = Close(@), !.ws = 0]
            ELSE [m EXCEPT !.ws = 0]
  IN [m1 EXCEPT !.pendingRequests = {}]

\* a handleMessage() that gives a response to the oldest entry of the table
handleMessageOldest(m, msg) ==
  IF msg.valid /\ msg.id # 0 /\ m.pendingRequests # {}
  THEN LET id == Min(m.pendingRequests)
           c == CallOf(m, id)
           m1 == [m EXCEPT !.pendingRequests = @ \ {id},
                           !.timers = ClearTimeout(@, "request", id)]
       IN IF msg.hasError
          THEN Settle(m1, c, "response", PlainError(msg.error.message))
          ELSE Settle(m1, c, "response", Resolved(msg.result))
  ELSE m

\* a handleMessage() that gives a frame it cannot correlate to the oldest entry
handleMessageAnyFrame(m, msg) ==
  IF msg.valid /\ m.pendingRequests # {}
  THEN LET id == IF msg.id \in m.pendingRequests THEN msg.id ELSE Min(m.pendingRequests)
           c == CallOf(m, id)
           m1 == [m EXCEPT !.pendingRequests = @ \ {id},
                           !.timers = ClearTimeout(@, "request", id)]
       IN IF msg.hasError
          THEN Settle(m1, c, "response", PlainError(msg.error.message))
          ELSE Settle(m1, c, "response", Resolved(msg.result))
  ELSE m

\* handleMessage(): a frame with an id that has a table entry settles that entry
handleMessage(m, msg) ==
  IF msg.valid /\ msg.id # 0 /\ msg.id \in m.pendingRequests
  THEN LET c == CallOf(m, msg.id)
           m1 == [m EXCEPT !.pendingRequests = @ \ {msg.id},
                           !.timers = ClearTimeout(@, "request", msg.id)]
       IN IF msg.hasError
          THEN Settle(m1, c, "response", PlainError(msg.error.message))
          ELSE Settle(m1, c, "response", Resolved(msg.result))
  ELSE m

\* reject(...) of the promise of the connect() that created socket s
RejectConnect(m, s, err) ==
  IF s # 0 /\ m.socks[s].promise = "pending"
  THEN Resume([m EXCEPT !.socks[s].promise = "rejected"],
              [who |-> m.socks[s].who, ref |-> m.socks[s].ref], FALSE, err)
  ELSE m

\* ws.onopen
onopen(m, s) ==
  LET m1 == [m EXCEPT !.socks[s].phase = "OPEN",
                      !.isConnecting = FALSE,
                      !.reconnectAttempts = 0,
                      !.runDelays = << >>]
  IN IF m.socks[s].promise = "pending"
     THEN Resume([m1 EXCEPT !.socks[s].promise = "resolved"],
                 [who |-> m.socks[s].who, ref |-> m.socks[s].ref], TRUE, NoOutcome)
     ELSE m1

\* ws.onerror
onerror(m, s) ==
  RejectConnect([m EXCEPT !.isConnecting = FALSE], s,
                MCPConnectionError("Connection failed to server"))

\* ws.onclose
onclose(m, s) ==
  handleDisconnection([m EXCEPT !.isConnecting = FALSE, !.socks[s].phase = "CLOSED"])

\* the connection timeout timer set by connect()
connectTimeout(m, s) ==
  IF m.isConnecting
  THEN RejectConnect([m EXCEPT !.isConnecting = FALSE], s,
                     MCPConnectionError("Connection timeout"))
  ELSE m

\* checkConnection of a joined connect()
checkConnection(m, w) ==
  IF IsOpen(m) THEN Resume(m, w, TRUE, NoOutcome)
  ELSE IF ~m.isConnecting
  THEN Resume(m, w, FALSE, MCPConnectionError("Connection failed"))
  ELSE [m EXCEPT !.timers = Append(@, [kind |-> "poll", who |-> w.who, ref |-> w.ref,
                                       delay |-> POLL_INTERVAL])]

\* The network refuses the socket connect() has just created: its error and
\* close events are the next thing that happens.  Such a socket is not kept
\* in socks.
Refuse(m) ==
  LET s == Len(m.socks)
      m1 == onclose(onerror(m, s), s)
  IN [m1 EXCEPT !.socks = SubSeq(@, 1, s - 1),
                !.ws = IF @ = s THEN REFUSED ELSE @,
                !.timers = [i \in 1..Len(@) |->
                              IF @[i].kind = "connect" /\ @[i].ref = s
                              THEN [@[i] EXCEPT !.ref = 0] ELSE @[i]]]

\* a request timer that rejects but leaves the table entry in place
requestTimeoutKeepsEntry(m, id) ==
  Settle(m, CallOf(m, id), "timeout", MCPConnectionError("Request timeout"))

\* a request timer that rejects its call and empties the table
requestTimeoutClearsTable(m, id) ==
  Settle([m EXCEPT !.pendingRequests = {}], CallOf(m, id), "timeout",
         MCPConnectionError("Request timeout"))

\* the request timer set by sendRequest()
requestTimeout(m, id) ==
  Settle([m EXCEPT !.pendingRequests = @ \ {id}], CallOf(m, id), "timeout",
         MCPConnectionError("Request timeout"))

\* get connectionState()
connectionState(m) ==
  IF m.isConnecting THEN "connecting"
  ELSE IF IsOpen(m) THEN "connected"
  ELSE IF m.reconnectAttempts > 0 THEN "reconnecting"
  ELSE "disconnected"

----------------------------------------------------------------------------
(* mock-mcp-server.cjs *)

NoResult == [kind |-> "none", design |-> 0, title |-> 0]
NoError == [code |-> 0, message |-> ""]

\* a createMCPResponse() that leaves the id out
createMCPResponseNoId(id, result, error) ==
  [valid |-> TRUE, id |-> 0,
   hasResult |-> result # NoResult, result |-> result,
   hasError |-> error # NoError, error |-> error]

\* createMCPResponse(id, result, error)
createMCPResponse(id, result, error) ==
  [valid |-> TRUE, id |-> id,
   hasResult |-> result # NoResult, result |-> result,
   hasError |-> error # NoError, error |-> error]

\* generateMockDesign(): the design's id is made from the clock
generateMockDesign(clock, title) == [kind |-> "design", design |-> clock, title |-> title]

\* What the server reads in a frame.  shape: "invalid" is text that is no JSON,
\* "null" the JSON value null, "scalar" any other JSON value that is no object
\* (a number, a string), "object" a JSON object.  id 0: the frame has no id;
\* method "undefined": it has no method; params FALSE: it has no params.
\* mockDesigns is a plain object: a key that Object.prototype defines
\* ('constructor', 'toString', ...) reads as a function, which is truthy.
INHERITED == PRELOADED - 2

\* the methods whose handler reads a property of request.params
ReadsParams(method) ==
  method \in {"canva.design.create", "canva.design.get", "canva.template.search",
              "canva.ai.generate", "canva.design.create_from_template"}

\* the methods whose handler puts a new design into mockDesigns
CreatesDesign(method) ==
  method \in {"canva.design.create", "canva.ai.generate",
              "canva.design.create_from_template"}

\* the try block throws: JSON.parse of text that is no JSON, request.method of
\* null, request.params.<property> of a request without params
Throws(req) ==
  \/ req.shape \in {"invalid", "null"}
  \/ req.shape = "object" /\ ReadsParams(req.method) /\ ~req.params

\* the frame the catch block sends
ParseErrorResponse ==
  [valid |-> TRUE, id |-> 0, hasResult |-> FALSE, result |-> NoResult,
   hasError |-> TRUE, error |-> [code |-> PARSE_ERROR, message |-> "Parse error"]]

\* the response of the `switch (request.method)` for one request
Respond(req, store, clock) ==
  CASE req.method = "ping" ->
         createMCPResponse(req.id, [kind |-> "pong", design |-> 0, title |-> 0], NoError)
    [] req.method = "canva.capabilities" ->
         createMCPResponse(req.id, [kind |-> "capabilities", design |-> 0, title |-> 0],
                           NoError)
    [] req.method = "canva.design.get" ->
         IF req.arg \in DOMAIN store
         THEN createMCPResponse(req.id,
                [kind |-> "design", design |-> req.arg, title |-> store[req.arg]], NoError)
         ELSE IF req.arg = INHERITED
         THEN createMCPResponse(req.id, [kind |-> "empty", design |-> 0, title |-> 0],
                                NoError)
         ELSE createMCPResponse(req.id, NoResult,
                [code |-> NOT_FOUND, message |-> "Design not found"])
    [] req.method = "canva.design.list" ->
         createMCPResponse(req.id, [kind |-> "designs", design |-> 0, title |-> 0], NoError)
    [] req.method = "canva.template.search" ->
         createMCPResponse(req.id, [kind |-> "templates", design |-> 0, title |-> 0],
                           NoError)
    [] CreatesDesign(req.method) ->
         createMCPResponse(req.id, generateMockDesign(clock, req.arg), NoError)
    [] OTHER ->
         createMCPResponse(req.id, NoResult,
                [code |-> METHOD_NOT_FOUND, message |-> "Method not found: " \o req.method])

\* handlers that all wait before they send
HandlerDelayUniform(method) == CREATE_DELAY

\* how long the handler waits before it sends (0: it sends at once)
HandlerDelay(method) ==
  CASE method = "canva.design.create" -> CREATE_DELAY
    [] method = "canva.ai.generate" -> AI_DELAY
    [] method = "canva.design.create_from_template" -> TEMPLATE_DELAY
    [] OTHER -> 0

\* the store after the handler ran
StoreAfter(req, store, clock) ==
  IF CreatesDesign(req.method)
  THEN (clock :> req.arg) @@ store
  ELSE store

\* ws.on('message'): the frame the handler sends for a received frame, the
\* delay after which it sends it, and the store it leaves
Dispatch(req, store, clock) ==
  IF Throws(req)
  THEN [msg |-> ParseErrorResponse, delay |-> 0, store |-> store]
  ELSE [msg |-> Respond(req, store, clock), delay |-> HandlerDelay(req.method),
        store |-> StoreAfter(req, store, clock)]

----------------------------------------------------------------------------
(* The initial state: a client just constructed, a server just started *)

Init ==
  /\ ws = 0
  /\ socks = << >>
  /\ requestId = 0
  /\ pendingRequests = {}
  /\ reconnectAttempts = 0
  /\ isConnecting = FALSE
  /\ timers = << >>
  /\ calls = << >>
  /\ c2s = << >>
  /\ srvTimers = << >>
  /\ s2c = << >>
  /\ mockDesigns = (PRELOADED :> 0)
  /\ now = 1
  /\ produced = << >>
  /\ userDisconnected = FALSE
  /\ runDelays = << >>

----------------------------------------------------------------------------
(* Actions *)

NoCallerPoll(m) ==
  \A i \in 1..Len(m.timers) : ~(m.timers[i].kind = "poll" /\ m.timers[i].who = "caller")

\* connect() would open a socket
OpensSocket(m) == ~IsOpen(m) /\ ~m.isConnecting

\* connect() stays within the bound b on the sockets of the exploration
ConnectAllowed(m, b) == OpensSocket(m) => Len(m.socks) < b

FirstOfSock(seq, i) == \A j \in 1..(i - 1) : seq[j].sock # seq[i].sock

DropSock(seq, s) == SelectSeq(seq, LAMBDA f : f.sock # s)

\* the owner of the client calls connect()
Connect(b) ==
  /\ ConnectAllowed(Cur, b)
  /\ NoCallerPoll(Cur)
  /\ Commit(connect(Cur, Caller, 0))
  /\ userDisconnected' = FALSE
  /\ UNCHANGED << s2c, serverVars >>

\* the owner of the client calls disconnect()
Disconnect ==
  /\ Commit(disconnect(Cur))
  /\ userDisconnected' = TRUE
  /\ UNCHANGED << s2c, serverVars >>

\* a caller invokes sendRequest(method, params) and wants it to time out after t
SendRequest(b, r, t) ==
  /\ Len(calls) < MaxCalls
  /\ LET c == Len(calls) + 1
         m0 == [Cur EXCEPT !.calls = Append(@,
                  [st |-> "connecting", id |-> 0, method |-> r.method, arg |-> r.arg,
                   timeoutMs |-> t, settles |-> << >>, outcome |-> NoOutcome])]
     IN /\ ConnectAllowed(m0, b)
        /\ Commit(IF IsOpen(m0) THEN sendRequestIssue(m0, c)
                                ELSE connect(m0, CallWaiter(c), 0))
  /\ userDisconnected' = FALSE
  /\ UNCHANGED << s2c, serverVars >>

\* the handshake of socket s completes
SocketOpen(s) ==
  /\ socks[s].phase = "CONNECTING"
  /\ Commit(onopen(Cur, s))
  /\ UNCHANGED << s2c, serverVars, userDisconnected >>

\* the handshake of socket s fails or was aborted: an error event, then a close event
SocketFail(s) ==
  /\ socks[s].phase \in {"CONNECTING", "ABORTING"}
  /\ Commit(onclose(onerror(Cur, s), s))
  /\ UNCHANGED << s2c, serverVars, userDisconnected >>

\* socket s, which was open, is closed: by the peer, by the network or by close()
SocketClose(s) ==
  /\ socks[s].phase \in {"OPEN", "CLOSING"}
  /\ Commit(onclose([Cur EXCEPT !.c2s = DropSock(@, s)], s))
  /\ s2c' = DropSock(s2c, s)
  /\ srvTimers' = DropSock(srvTimers, s)
  /\ UNCHANGED << mockDesigns, now, produced, userDisconnected >>

\* the 10 s timer of the connect() that created a socket expires
ConnectTimer(i) ==
  /\ timers[i].kind = "connect"
  /\ Fireable(timers, i)
  /\ Commit(connectTimeout([Cur EXCEPT !.timers = RemoveAt(@, i)], timers[i].ref))
  /\ UNCHANGED << s2c, serverVars, userDisconnected >>

\* a reconnection timer expires: its callback awaits connect()
ReconnectTimer(b, i) ==
  /\ timers[i].kind = "reconnect"
  /\ Fireable(timers, i)
  /\ LET m0 == [Cur EXCEPT !.timers = RemoveAt(@, i)]
     IN /\ ConnectAllowed(m0, b)
        /\ Commit(connect(m0, Reconnector, timers[i].delay))
  /\ UNCHANGED << s2c, serverVars, userDisconnected >>

\* a reconnection timer expires when the b sockets are used up: the socket its
\* connect() opens is refused at once
ReconnectRefused(b, i) ==
  /\ timers[i].kind = "reconnect"
  /\ Fireable(timers, i)
  /\ LET m0 == [Cur EXCEPT !.timers = RemoveAt(@, i)]
     IN /\ OpensSocket(m0)
        /\ Len(m0.socks) >= b
        /\ Commit(Refuse(connect(m0, Reconnector, timers[i].delay)))
  /\ UNCHANGED << s2c, serverVars, userDisconnected >>

\* the timer of a request expires
RequestTimer(i) ==
  /\ timers[i].kind = "request"
  /\ Fireable(timers, i)
  /\ Commit(requestTimeout([Cur EXCEPT !.timers = RemoveAt(@, i)], timers[i].ref))
  /\ UNCHANGED << s2c, serverVars, userDisconnected >>

\* a joined connect() looks at the connection again
PollTimer(i) ==
  /\ timers[i].kind = "poll"
  /\ Fireable(timers, i)
  /\ Commit(checkConnection([Cur EXCEPT !.timers = RemoveAt(@, i)],
                            [who |-> timers[i].who, ref |-> timers[i].ref]))
  /\ UNCHANGED << s2c, serverVars, userDisconnected >>

\* the server receives the next request frame of a connection and dispatches
\* it; when the handler reads the clock (Date.now() in generateMockDesign), the
\* clock may have moved on since it was last read
ServerDispatch(i) ==
  /\ FirstOfSock(c2s, i)
  /\ now' \in IF CreatesDesign(c2s[i].method) /\ ~Throws(c2s[i])
              THEN {now, now + 1} ELSE {now}
  /\ LET req == c2s[i]
         out == Dispatch(req, mockDesigns, now')
         resp == [sock |-> req.sock, delay |-> out.delay, msg |-> out.msg]
     IN /\ c2s' = RemoveAt(c2s, i)
        /\ mockDesigns' = out.store
        /\ produced' = (req.id :> resp.msg) @@ produced
        /\ IF resp.delay = 0
           THEN s2c' = Append(s2c, resp) /\ UNCHANGED srvTimers
           ELSE srvTimers' = Append(srvTimers, resp) /\ UNCHANGED s2c
  /\ UNCHANGED << ws, socks, requestId, pendingRequests, reconnectAttempts, isConnecting,
                  timers, calls, userDisconnected, runDelays >>

\* a delayed handler's timer expires and it sends its response
ServerTimer(i) ==
  /\ Fireable(srvTimers, i)
  /\ s2c' = Append(s2c, srvTimers[i])
  /\ srvTimers' = RemoveAt(srvTimers, i)
  /\ UNCHANGED << ws, socks, requestId, pendingRequests, reconnectAttempts, isConnecting,
                  timers, calls, c2s, mockDesigns, now, produced,
                  userDisconnected, runDelays >>

\* ws.onmessage: the next frame of a connection reaches the client
Deliver(i) ==
  /\ FirstOfSock(s2c, i)
  /\ socks[s2c[i].sock].phase \in {"OPEN", "CLOSING"}
  /\ Commit(handleMessage(Cur, s2c[i].msg))
  /\ s2c' = RemoveAt(s2c, i)
  /\ UNCHANGED << serverVars, userDisconnected >>

SocketNext ==
  \/ Disconnect
  \/ \E s \in 1..Len(socks) : SocketOpen(s)
  \/ \E s \in 1..Len(socks) : SocketFail(s)
  \/ \E s \in 1..Len(socks) : SocketClose(s)
  \/ \E i \in 1..Len(timers) : ConnectTimer(i)
  \/ \E i \in 1..Len(timers) : PollTimer(i)

CallsNext(b, requests) ==
  \/ \E r \in requests, t \in TimeoutInputs : SendRequest(b, r, t)
  \/ \E i \in 1..Len(timers) : RequestTimer(i)
  \/ \E i \in 1..Len(c2s) : ServerDispatch(i)
  \/ \E i \in 1..Len(srvTimers) : ServerTimer(i)
  \/ \E i \in 1..Len(s2c) : Deliver(i)

Next ==
  \/ Connect(MaxSockets)
  \/ SocketNext
  \/ \E i \in 1..Len(timers) : ReconnectTimer(MaxSockets, i)
  \/ CallsNext(MaxSockets, Requests)

Spec == Init /\ [][Next]_vars

\* Callers that make requests of the known methods and disconnect, and what
\* happens before the first reconnection timer expires.
NextCalls == SocketNext \/ CallsNext(MaxCallSockets, KnownRequests)

SpecCalls == Init /\ [][NextCalls]_vars

\* The same with the requests that the server answers with an error.
NextRequests == SocketNext \/ CallsNext(MaxCallSockets, Requests)

SpecRequests == Init /\ [][NextRequests]_vars

\* Callers that only ping and disconnect, with the reconnection timers.  The
\* server answers a ping at once, so it sets no timer.
NextIds ==
  \/ SocketNext
  \/ \E i \in 1..Len(timers) : ReconnectTimer(MaxSockets, i)
  \/ \E r \in PingRequests, t \in TimeoutInputs : SendRequest(MaxSockets, r, t)
  \/ \E i \in 1..Len(timers) : RequestTimer(i)
  \/ \E i \in 1..Len(c2s) : ServerDispatch(i)
  \/ \E i \in 1..Len(s2c) : Deliver(i)

SpecIds == Init /\ [][NextIds]_vars

\* The connection alone: no requests are made, and once MaxSockets sockets
\* were created the server is down.
NextReconnect ==
  \/ Connect(MaxSockets)
  \/ SocketNext
  \/ \E i \in 1..Len(timers) : ReconnectTimer(MaxSockets, i)
  \/ \E i \in 1..Len(timers) : ReconnectRefused(MaxSockets, i)

SpecReconnect == Init /\ [][NextReconnect]_vars

\* Callers that ping and disconnect, with the reconnection timers, under fair
\* scheduling: a timer that is due expires, a socket the client closed or
\* aborted gets its close event, a frame that was sent arrives.  Whether the
\* handshake of a connecting socket ever completes or fails is up to the peer.
NextLive ==
  \/ SocketNext
  \/ \E i \in 1..Len(timers) : ReconnectTimer(MaxSockets, i)
  \/ \E i \in 1..Len(timers) : ReconnectRefused(MaxSockets, i)
  \/ \E r \in PingRequests, t \in TimeoutInputs : SendRequest(MaxSockets, r, t)
  \/ \E i \in 1..Len(timers) : RequestTimer(i)
  \/ \E i \in 1..Len(c2s) : ServerDispatch(i)
  \/ \E i \in 1..Len(s2c) : Deliver(i)

FairScheduling ==
  /\ WF_vars(\E i \in 1..Len(timers) : ConnectTimer(i))
  /\ WF_vars(\E i \in 1..Len(timers) : PollTimer(i))
  /\ WF_vars(\E i \in 1..Len(timers) : RequestTimer(i))
  /\ WF_vars(\E i \in 1..Len(timers) :
               ReconnectTimer(MaxSockets, i) \/ ReconnectRefused(MaxSockets, i))
  /\ WF_vars(\E s \in 1..Len(socks) : socks[s].phase = "ABORTING" /\ SocketFail(s))
  /\ WF_vars(\E s \in 1..Len(socks) : socks[s].phase = "CLOSING" /\ SocketClose(s))
  /\ WF_vars(\E i \in 1..Len(c2s) : ServerDispatch(i))
  /\ WF_vars(\E i \in 1..Len(s2c) : Deliver(i))

SpecLive == Init /\ [][NextLive]_vars /\ FairScheduling

\* Callers that ping and never call disconnect(), a peer that answers no
\* request, may close the connection at any time and is reachable: the
\* handshake of every socket completes.  Scheduling is fair: a timer that is due expires and a
\* connecting socket opens.
NextRecover ==
  \/ \E r \in PingRequests, t \in TimeoutInputs : SendRequest(MaxSockets, r, t)
  \/ \E s \in 1..Len(socks) : SocketOpen(s)
  \/ \E s \in 1..Len(socks) : SocketClose(s)
  \/ \E i \in 1..Len(timers) : ConnectTimer(i)
  \/ \E i \in 1..Len(timers) : PollTimer(i)
  \/ \E i \in 1..Len(timers) : RequestTimer(i)
  \/ \E i \in 1..Len(timers) : ReconnectTimer(MaxSockets, i)

FairRecovery ==
  /\ WF_vars(\E s \in 1..Len(socks) : SocketOpen(s))
  /\ WF_vars(\E i \in 1..Len(timers) : ConnectTimer(i))
  /\ WF_vars(\E i \in 1..Len(timers) : PollTimer(i))
  /\ WF_vars(\E i \in 1..Len(timers) : RequestTimer(i))
  /\ WF_vars(\E i \in 1..Len(timers) : ReconnectTimer(MaxSockets, i))

SpecRecover == Init /\ [][NextRecover]_vars /\ FairRecovery

\* Callers that ping and connect, never disconnect, and may use one socket
\* more than elsewhere; the peer is slow: a handshake may complete after the
\* connection timeout, and no socket fails.
NextSlowPeer ==
  \/ Connect(MaxSockets + 1)
  \/ \E r \in PingRequests, t \in TimeoutInputs : SendRequest(MaxSockets + 1, r, t)
  \/ \E s \in 1..Len(socks) : SocketOpen(s)
  \/ \E s \in 1..Len(socks) : SocketClose(s)
  \/ \E i \in 1..Len(timers) : ConnectTimer(i)
  \/ \E i \in 1..Len(timers) : PollTimer(i)
  \/ \E i \in 1..Len(timers) : RequestTimer(i)
  \/ \E i \in 1..Len(c2s) : ServerDispatch(i)
  \/ \E i \in 1..Len(s2c) : Deliver(i)

SpecSlowPeer == Init /\ [][NextSlowPeer]_vars

\* Frames that reach the client and answer none of its requests: the welcome
\* frame the server sends after a connection was made (it has no id), the frame
\* of the server's catch block (its id is null), text that is no JSON, and a
\* response whose id has no entry in pendingRequests (one that was settled
\* already, or one that was never issued).
MaxInbound == 2

\* the one connection of a specification that has one only
Peer == 1

WelcomeFrame ==
  [valid |-> TRUE, id |-> 0, hasResult |-> FALSE, result |-> NoResult,
   hasError |-> FALSE, error |-> NoError]

InvalidFrame == [WelcomeFrame EXCEPT !.valid = FALSE]

StrayFrames ==
  {WelcomeFrame, InvalidFrame, ParseErrorResponse} \cup
  {createMCPResponse(id, [kind |-> "pong", design |-> 0, title |-> 0], NoError) :
     id \in ((1..requestId) \ pendingRequests) \cup {MaxCalls + 1}}

\* the peer writes a frame on an open connection
PeerWrites(s, msg) ==
  /\ Len(s2c) < MaxInbound
  /\ socks[s].phase = "OPEN"
  /\ s2c' = Append(s2c, [sock |-> s, delay |-> 0, msg |-> msg])
  /\ UNCHANGED << ws, socks, requestId, pendingRequests, reconnectAttempts, isConnecting,
                  timers, calls, c2s, srvTimers, mockDesigns, now, produced,
                  userDisconnected, runDelays >>

\* Callers that ping and disconnect over one connection that is never
\* replaced, and a peer that also sends stray frames.
OneConnection == Peer

NextFrames ==
  \/ SocketNext
  \/ \E r \in PingRequests, t \in TimeoutInputs : SendRequest(OneConnection, r, t)
  \/ \E i \in 1..Len(timers) : RequestTimer(i)
  \/ \E i \in 1..Len(c2s) : ServerDispatch(i)
  \/ \E i \in 1..Len(s2c) : Deliver(i)
  \/ \E s \in 1..Len(socks), msg \in StrayFrames : PeerWrites(s, msg)

SpecFrames == Init /\ [][NextFrames]_vars

\* The dispatcher on its own: some WebSocket peer (not necessarily a
\* CanvaMCPClient) writes frames on one connection; s2c keeps every frame the
\* server sent, in the order it sent them.
MaxFrames == 2

FramesSent == Len(c2s) + Len(srvTimers) + Len(s2c)

NotAnObject(shape) ==
  [sock |-> Peer, shape |-> shape, id |-> 0, method |-> "undefined",
   params |-> FALSE, arg |-> 0]

Object(id, method, params, arg) ==
  [sock |-> Peer, shape |-> "object", id |-> id, method |-> method,
   params |-> params, arg |-> arg]

\* the frames a peer may write; id is the id it gives to a frame that has one
RawFrames(id) ==
  {NotAnObject("invalid"), NotAnObject("null"), NotAnObject("scalar")} \cup
  {Object(id, "undefined", TRUE, 0),
   Object(0, "ping", FALSE, 0),
   Object(id, "ping", FALSE, 0),
   Object(id, "canva.design.list", FALSE, 0),
   Object(id, "canva.capabilities", FALSE, 0),
   Object(id, "canva.template.search", TRUE, 0),
   Object(id, "canva.design.get", TRUE, PRELOADED),
   Object(id, "canva.design.get", TRUE, MISSING),
   Object(id, "canva.design.get", TRUE, INHERITED),
   Object(id, "canva.design.get", TRUE, 1),
   Object(id, "canva.design.create", TRUE, 0),
   Object(id, "canva.design.create", TRUE, 1),
   Object(id, "canva.design.create", FALSE, 0),
   Object(id, "canva.ai.generate", TRUE, 0),
   Object(id, "canva.design.create_from_template", TRUE, 0),
   Object(id, "no.such.method", TRUE, 0)}

\* the peer writes a frame
RawSend(f) ==
  /\ FramesSent < MaxFrames
  /\ c2s' = Append(c2s, f)
  /\ UNCHANGED << ws, socks, requestId, pendingRequests, reconnectAttempts, isConnecting,
                  timers, calls, srvTimers, s2c, mockDesigns, now, produced,
                  userDisconnected, runDelays >>

NextServer ==
  \/ \E f \in RawFrames(FramesSent + 1) : RawSend(f)
  \/ \E i \in 1..Len(c2s) : ServerDispatch(i)
  \/ \E i \in 1..Len(srvTimers) : ServerTimer(i)

SpecServer == Init /\ [][NextServer]_vars

----------------------------------------------------------------------------
(* Properties *)

Issued(c) == calls[c].st = "issued"

Armed(id) == \E i \in 1..Len(timers) : timers[i].kind = "request" /\ timers[i].ref = id

InFlight(id) ==
  \/ \E i \in 1..Len(c2s) : c2s[i].id = id
  \/ \E i \in 1..Len(srvTimers) : srvTimers[i].msg.id = id
  \/ \E i \in 1..Len(s2c) : s2c[i].msg.id = id

ConnectionLost == MCPConnectionError("Connection lost")

\* C1: exactly-once settlement.  An issued call is settled at most once, by a
\* response, by its timer or by the loss of the transport; it is settled
\* exactly when its timer is gone (an unsettled call still has the timer that
\* will settle it), and a call that is still in the table is not settled.  So a
\* response that comes after the timer settled the call finds no entry and
\* settles nothing.
ExactlyOnceSettlement ==
  \A c \in 1..Len(calls) :
    Issued(c) =>
      /\ Len(calls[c].settles) <= 1
      /\ (calls[c].settles = << >>) <=> Armed(calls[c].id)
      /\ (calls[c].settles = << >>) <=> (calls[c].outcome.kind = "none")
      /\ calls[c].id \in pendingRequests => calls[c].settles = << >>
      /\ calls[c].settles # << >> => calls[c].settles[1] \in {"response", "timeout", "lost"}

\* C1 witness: a call was settled by its timer, the server's response to it
\* was delivered afterwards (the socket never closed, and the response is no
\* longer on its way), and the call is still settled once.
LateResponseAfterTimeout ==
  \E c \in 1..Len(calls) :
    /\ calls[c].settles = << "timeout" >>
    /\ calls[c].id \in DOMAIN produced
    /\ ~InFlight(calls[c].id)
    /\ \A s \in 1..Len(socks) : socks[s].phase = "OPEN"

\* C2: correlation uniqueness.  The ids of issued calls are pairwise distinct,
\* a call keeps its id, and a call that is issued gets an id larger than every
\* id issued before, also after disconnect() and on a later socket.
CorrelationUniqueness ==
  /\ [](\A c, d \in 1..Len(calls) :
          c # d /\ calls[c].id # 0 => calls[c].id # calls[d].id)
  /\ [][\A c \in 1..Len(calls') :
          LET old == IF c <= Len(calls) THEN calls[c].id ELSE 0
          IN IF old # 0
             THEN calls'[c].id = old
             ELSE calls'[c].id # 0 =>
                    \A d \in 1..Len(calls) : calls'[c].id > calls[d].id]_vars

\* C2 witness: a call was issued on the first socket, and after a disconnect()
\* another call was issued on the second socket.
IdsAcrossReconnect ==
  /\ Len(socks) = 2
  /\ socks[1].phase = "CLOSED"
  /\ \E c, d \in 1..Len(calls) :
       /\ calls[c].id # 0 /\ calls[d].id # 0 /\ c # d
       /\ \E i \in 1..Len(c2s) : c2s[i].id = calls[d].id /\ c2s[i].sock = 2
       /\ calls[c].settles # << >>

\* C3: disconnect() rejects every call that is pending when it is invoked with
\* the connection-lost error, as part of disconnect(), and leaves the table empty.
DisconnectRejectsPending ==
  [][Disconnect =>
       /\ pendingRequests' = {}
       /\ \A c \in 1..Len(calls) :
            calls[c].id \in pendingRequests => calls'[c].outcome = ConnectionLost]_vars

\* C4: when a socket closes, every pending call (it is in the table and not
\* settled) is rejected with the connection-lost error in that step, the table
\* is empty afterwards and none of these calls has a timer left that could fire.
TransportLossDrainsAll ==
  [][\A s \in 1..Len(socks) :
       SocketClose(s) =>
         /\ pendingRequests' = {}
         /\ \A c \in 1..Len(calls) :
              (calls[c].id \in pendingRequests /\ calls[c].outcome = NoOutcome) =>
                /\ calls'[c].outcome = ConnectionLost
                /\ calls'[c].settles = << "lost" >>
                /\ \A i \in 1..Len(timers') :
                     ~(timers'[i].kind = "request" /\ timers'[i].ref = calls[c].id)]_vars

\* C4 witness: MaxCalls calls were pending together and all of them were
\* rejected by the loss of the transport.
AllDrained ==
  /\ Len(calls) = MaxCalls
  /\ \A c \in 1..Len(calls) :
       calls[c].settles = << "lost" >> /\ calls[c].outcome = ConnectionLost /\ ~Armed(calls[c].id)
  /\ pendingRequests = {}

\* C5: after disconnect(), until the caller connects or calls again, no
\* reconnection is scheduled or executed: reconnectAttempts does not grow, no
\* reconnection timer is set and no socket is opened.
ReconnectTimers(seq) == Cardinality(SelectIdx(seq, LAMBDA t : t.kind = "reconnect"))

DisconnectSuppressesReconnect ==
  [][userDisconnected /\ userDisconnected' =>
       /\ reconnectAttempts' <= reconnectAttempts
       /\ ReconnectTimers(timers') <= ReconnectTimers(timers)
       /\ Len(socks') = Len(socks)
       /\ Len(runDelays') <= Len(runDelays)]_vars

\* C6: round trip under any arrival order.  A call that a response settled got
\* the response the server made for the call's own id: it resolved with that
\* response's result, or was rejected if that response was an error; and no
\* call resolves in another way.
RoundTrip ==
  \A c \in 1..Len(calls) :
    /\ (calls[c].settles # << >> /\ calls[c].settles[1] = "response") =>
         /\ calls[c].id \in DOMAIN produced
         /\ IF produced[calls[c].id].hasError
            THEN calls[c].outcome.kind = "reject"
            ELSE calls[c].outcome = Resolved(produced[calls[c].id].result)
    /\ calls[c].outcome.kind = "resolve" =>
         calls[c].settles # << >> /\ calls[c].settles[1] = "response"

\* C6 witness: the response to a later call has arrived and resolved it while
\* the response to an earlier call, a different one, is still on its way.
OvertakenResponse ==
  \E c, d \in 1..Len(calls) :
    /\ Issued(c) /\ Issued(d) /\ calls[c].id < calls[d].id
    /\ calls[d].outcome.kind = "resolve"
    /\ calls[c].outcome.kind = "none"
    /\ calls[c].id \in DOMAIN produced
    /\ produced[calls[c].id].result # produced[calls[d].id].result
    /\ InFlight(calls[c].id)

\* C7: the timer of a call runs for the timeoutMs its caller supplied, and a
\* call that its timer settled was rejected with a timeout error.
TimeoutFires ==
  /\ \A i \in 1..Len(timers) :
       timers[i].kind = "request" =>
         timers[i].delay = calls[CallOf(Cur, timers[i].ref)].timeoutMs
  /\ \A c \in 1..Len(calls) :
       (calls[c].settles # << >> /\ calls[c].settles[1] = "timeout") =>
         calls[c].outcome.kind = "reject" /\ calls[c].outcome.code = "TIMEOUT"

\* C8: a call that an error response settled was rejected with an error value
\* that carries the response's code and message; for a method the server does
\* not know the code is -32601.
ErrorCodePropagated ==
  \A c \in 1..Len(calls) :
    (/\ calls[c].settles # << >> /\ calls[c].settles[1] = "response"
     /\ produced[calls[c].id].hasError) =>
      /\ calls[c].outcome.kind = "reject"
      /\ calls[c].outcome.errcode = produced[calls[c].id].error.code
      /\ calls[c].outcome.message = produced[calls[c].id].error.message
      /\ calls[c].method = "no.such.method" => calls[c].outcome.errcode = METHOD_NOT_FOUND

\* C9: the k-th socket that a reconnection timer opens since the last
\* successful connection is opened by a timer of reconnectDelay * 2^(k-1) ms.
BackoffDelays ==
  \A k \in 1..Len(runDelays) : runDelays[k] = reconnectDelay * Pow2(k - 1)

\* C10: reconnection timers open at most maxReconnectAttempts sockets between
\* two successful connections, and reconnectAttempts stays within
\* 0..maxReconnectAttempts.
BoundedReconnection ==
  /\ Len(runDelays) <= maxReconnectAttempts
  /\ 0 <= reconnectAttempts /\ reconnectAttempts <= maxReconnectAttempts

\* C11: once reconnectAttempts has reached maxReconnectAttempts and the last
\* attempt has failed (no socket is open or connecting and no reconnection
\* timer is left), connectionState reports 'disconnected'.
ExhaustionIsTerminal ==
  (/\ reconnectAttempts = maxReconnectAttempts
   /\ ReconnectTimers(timers) = 0
   /\ ~isConnecting
   /\ \A s \in 1..Len(socks) : socks[s].phase \notin {"CONNECTING", "OPEN"}) =>
    connectionState(Cur) = "disconnected"

\* the connection timeout timer that the connect() of socket s set is still running
ConnectTimerRuns(s) ==
  \E i \in 1..Len(timers) : timers[i].kind = "connect" /\ timers[i].ref = s

\* C13: a connect() that opened a socket is settled at the latest when its
\* connection timeout expires: its promise is unsettled only while its own
\* 10 s timer is still running, also when timers of earlier attempts are
\* outstanding.
ConnectSettlesInTime ==
  \A s \in 1..Len(socks) : socks[s].promise = "pending" => ConnectTimerRuns(s)

\* a connect() is in flight: its socket is connecting and its promise unsettled
AttemptInFlight ==
  \E s \in 1..Len(socks) : socks[s].phase = "CONNECTING" /\ socks[s].promise = "pending"

\* C14: while a connect() is in flight no step opens another socket (whoever
\* calls connect() then joins the attempt in flight).
NoSecondSocket ==
  [][AttemptInFlight =>
       (Len(socks') <= Len(socks) /\ Len(runDelays') <= Len(runDelays))]_vars

\* the client cannot correlate the frame: it is no JSON, has no id, or its id
\* has no entry in pendingRequests
Uncorrelatable(msg) == ~msg.valid \/ msg.id = 0 \/ msg.id \notin pendingRequests

\* C15: the delivery of a frame the client cannot correlate settles no call
\* and changes neither the table, nor a timer, nor the connection state; only
\* that frame leaves the connection, the frames behind it stay to be processed.
UncorrelatedDropped ==
  [][\A i \in 1..Len(s2c) :
       (Deliver(i) /\ Uncorrelatable(s2c[i].msg)) =>
         /\ UNCHANGED << calls, pendingRequests, timers, requestId, ws, socks,
                         isConnecting, reconnectAttempts >>
         /\ s2c' = RemoveAt(s2c, i)]_vars

\* C15 witness: on an open connection a frame that cannot be correlated is
\* the next to be delivered, ahead of the response to a call that is waiting
StrayFrameAhead ==
  /\ Len(s2c) = 2
  /\ s2c[1].sock = s2c[2].sock
  /\ socks[s2c[1].sock].phase = "OPEN"
  /\ Uncorrelatable(s2c[1].msg)
  /\ s2c[2].msg.id \in pendingRequests
  /\ Armed(s2c[2].msg.id)

----------------------------------------------------------------------------
(* The dispatcher of the mock server *)

\* the frame the server answers the dispatched frame c2s[i] with
Answer(i) == Dispatch(c2s[i], mockDesigns, now').msg

\* C12: every response the dispatcher produces for a frame that parses as JSON
\* and has an id carries that id, whatever the method and the params are,
\* also when the handler of a known method fails for want of params.
IdEcho ==
  [][\A i \in 1..Len(c2s) :
       (ServerDispatch(i) /\ c2s[i].shape # "invalid" /\ c2s[i].id # 0) =>
         Answer(i).id = c2s[i].id]_vars

\* C16: a frame that is no JSON, or whose JSON is no request envelope (a value
\* that is no object, an object without method), is answered with the parse
\* error -32700.
MalformedGetsParseError ==
  [][\A i \in 1..Len(c2s) :
       (ServerDispatch(i) /\ (c2s[i].shape # "object" \/ c2s[i].method = "undefined")) =>
         (Answer(i).hasError /\ Answer(i).error.code = PARSE_ERROR)]_vars

\* the methods the switch has a case clause for
Registered ==
  {"ping", "canva.capabilities", "canva.design.create", "canva.design.get",
   "canva.design.list", "canva.template.search", "canva.ai.generate",
   "canva.design.create_from_template"}

\* the frame is sent at once: it is on the wire after the step, and no timer was set
SentAtOnce(sock, msg) ==
  /\ s2c' = Append(s2c, [sock |-> sock, delay |-> 0, msg |-> msg])
  /\ srvTimers' = srvTimers

\* C17: a request whose method is not registered is answered at once with one
\* response that carries the request's id and the error -32601 with the
\* message 'Method not found: <method>'; the design store stays as it is.
MethodNotFound ==
  [][\A i \in 1..Len(c2s) :
       (ServerDispatch(i) /\ c2s[i].shape = "object" /\ c2s[i].method \notin Registered) =>
         /\ SentAtOnce(c2s[i].sock,
              [valid |-> TRUE, id |-> c2s[i].id, hasResult |-> FALSE, result |-> NoResult,
               hasError |-> TRUE,
               error |-> [code |-> METHOD_NOT_FOUND,
                          message |-> "Method not found: " \o c2s[i].method]])
         /\ mockDesigns' = mockDesigns]_vars

\* C17 witness: the error for the unknown method is on the wire, under the
\* request's id, while the response of a delayed handler is still to come
MethodNotFoundSent ==
  /\ srvTimers # << >>
  /\ \E j \in 1..Len(s2c) :
       /\ s2c[j].msg.id # 0
       /\ s2c[j].msg.hasError
       /\ s2c[j].msg.error = [code |-> METHOD_NOT_FOUND,
                              message |-> "Method not found: no.such.method"]

\* C18: a canva.design.get for an id that is not in the design store is
\* answered with the error 404 'Design not found' under the request's id, and
\* one for an id that is in the store with the design stored under it.
GetDesign ==
  [][\A i \in 1..Len(c2s) :
       (/\ ServerDispatch(i)
        /\ c2s[i].shape = "object" /\ c2s[i].method = "canva.design.get" /\ c2s[i].params) =>
         IF c2s[i].arg \in DOMAIN mockDesigns
         THEN SentAtOnce(c2s[i].sock,
                [valid |-> TRUE, id |-> c2s[i].id, hasResult |-> TRUE,
                 result |-> [kind |-> "design", design |-> c2s[i].arg,
                             title |-> mockDesigns[c2s[i].arg]],
                 hasError |-> FALSE, error |-> NoError])
         ELSE SentAtOnce(c2s[i].sock,
                [valid |-> TRUE, id |-> c2s[i].id, hasResult |-> FALSE, result |-> NoResult,
                 hasError |-> TRUE,
                 error |-> [code |-> NOT_FOUND, message |-> "Design not found"]])]_vars

\* the methods whose handler sends in the turn that dispatches the request
ImmediateClass ==
  {"ping", "canva.capabilities", "canva.design.get", "canva.design.list",
   "canva.template.search"}

\* C19: delayed handlers do not block the dispatcher: a frame that has arrived
\* can be dispatched whether or not responses of delayed handlers are
\* outstanding, and the response to a request of the immediate class that is
\* dispatched meanwhile is sent in that step, ahead of the outstanding ones.
DelayedDoNotBlock ==
  /\ [](\A i \in 1..Len(c2s) : FirstOfSock(c2s, i) => ENABLED ServerDispatch(i))
  /\ [][\A i \in 1..Len(c2s) :
          (/\ ServerDispatch(i)
           /\ srvTimers # << >>
           /\ c2s[i].shape = "object" /\ c2s[i].method \in ImmediateClass) =>
            SentAtOnce(c2s[i].sock, Answer(i))]_vars

\* C19 witness: the response to a later request of the immediate class is on
\* the wire while the response of an earlier delayed request is outstanding
AnsweredMeanwhile ==
  \E j \in 1..Len(s2c), k \in 1..Len(srvTimers) :
    /\ srvTimers[k].msg.id # 0
    /\ s2c[j].msg.id > srvTimers[k].msg.id
    /\ s2c[j].msg.hasResult

CallSettled(c) == Len(calls) >= c /\ calls[c].outcome # NoOutcome

\* C20: under fair scheduling every call that was made is eventually settled,
\* whatever the peer and the interleaved calls do.
EveryCallSettles ==
  \A c \in 1..MaxCalls : [](Len(calls) >= c => <>CallSettled(c))

----------------------------------------------------------------------------
(* The client's table, counter and connection state *)

\* C21: the pending table holds exactly the ids of the calls that were issued
\* and are not settled yet.
PendingTableConsistent ==
  pendingRequests =
    {calls[c].id : c \in {d \in 1..Len(calls) : Issued(d) /\ calls[d].outcome = NoOutcome}}

\* C22: when a socket opens reconnectAttempts becomes 0, and when the socket
\* a reconnection timer opened fails (its error and its close event), with
\* attempts left, reconnectAttempts grows by exactly 1 and exactly one more
\* reconnection timer is set.
AttemptCounterDiscipline ==
  [][\A s \in 1..Len(socks) :
       /\ SocketOpen(s) => reconnectAttempts' = 0
       /\ (/\ SocketFail(s)
           /\ socks[s].phase = "CONNECTING" /\ socks[s].auto
           /\ socks[s].promise = "pending"
           /\ reconnectAttempts < maxReconnectAttempts) =>
            /\ reconnectAttempts' = reconnectAttempts + 1
            /\ ReconnectTimers(timers') = ReconnectTimers(timers) + 1]_vars

\* what connectionState reports in the current state
ReportedState == connectionState(Cur)

\* the state changes the claim lists
ListedTransitions ==
  {<<"disconnected", "connecting">>, <<"connecting", "connected">>,
   <<"connecting", "disconnected">>, <<"connecting", "reconnecting">>,
   <<"connected", "reconnecting">>, <<"connected", "disconnected">>,
   <<"reconnecting", "connected">>, <<"reconnecting", "reconnecting">>,
   <<"reconnecting", "disconnected">>}

\* C23: connectionState is 'disconnected' at first and changes only along the
\* listed transitions.
StateMachineConformance ==
  /\ ReportedState \in {"disconnected", "connecting", "connected", "reconnecting"}
  /\ [][ReportedState' # ReportedState =>
          <<ReportedState, ReportedState'>> \in ListedTransitions]_vars

\* C24: when the socket of a connect() that the caller made from the
\* disconnected state (reconnectAttempts = 0) fails, the caller's promise is
\* rejected, the state is 'disconnected' again, and no reconnection is
\* scheduled: reconnectAttempts stays 0 and no reconnection timer is set.
CallerConnectFailure ==
  [][\A s \in 1..Len(socks) :
       (/\ SocketFail(s)
        /\ socks[s].phase = "CONNECTING"
        /\ socks[s].promise = "pending" /\ socks[s].who = "caller"
        /\ ws = s /\ reconnectAttempts = 0
        /\ ReconnectTimers(timers) = 0) =>
         /\ socks'[s].promise # "pending"
         /\ ReportedState' = "disconnected"
         /\ reconnectAttempts' = 0
         /\ ReconnectTimers(timers') = 0]_vars

\* C25: the expiry of the timer of one call removes that call's entry and
\* rejects that call with 'Request timeout'; the other entries and their
\* timers, the other calls, the sockets, the connection state, the counters
\* and the frames on their way stay as they are.
TimeoutIsolation ==
  [][\A i \in 1..Len(timers) :
       RequestTimer(i) =>
         LET id == timers[i].ref
             c == CallOf(Cur, id)
         IN /\ pendingRequests' = pendingRequests \ {id}
            /\ timers' = RemoveAt(timers, i)
            /\ Len(calls') = Len(calls)
            /\ \A d \in 1..Len(calls) : d # c => calls'[d] = calls[d]
            /\ calls[c].outcome = NoOutcome =>
                 calls'[c].outcome = MCPConnectionError("Request timeout")
            /\ UNCHANGED << ws, socks, isConnecting, reconnectAttempts, requestId,
                            c2s, s2c, srvTimers >>]_vars

\* C25 witness: one call was rejected by its timer, while a call issued after
\* it is still pending on the open socket, its timer set and its response on
\* the way
TimedOutBesideLive ==
  \E a, b \in 1..Len(calls) :
    /\ calls[a].settles = << "timeout" >>
    /\ Issued(b) /\ calls[b].id > calls[a].id
    /\ calls[b].outcome = NoOutcome
    /\ calls[b].id \in pendingRequests /\ Armed(calls[b].id)
    /\ \E j \in 1..Len(s2c) :
         s2c[j].msg.id = calls[b].id /\ socks[s2c[j].sock].phase = "OPEN"

\* the frames written for the request with this id
FramesOf(seq, id) == {j \in 1..Len(seq) : seq[j].id = id}

\* C26: a call made while the socket is not open has no id, no entry and no
\* frame until connect() has succeeded; it is issued in a step that leaves the
\* current socket open, with its frame written on that socket and its entry
\* registered; and when its connect() fails it is rejected with an
\* MCPConnectionError while no id is used, no frame is written and the table
\* stays as it is.
CallWhileNotConnected ==
  /\ [](\A c \in 1..Len(calls) :
          calls[c].st # "issued" =>
            /\ calls[c].id = 0
            /\ calls[c].st = "connecting" => calls[c].outcome = NoOutcome)
  /\ [](\A id \in pendingRequests : \E c \in 1..Len(calls) : Issued(c) /\ calls[c].id = id)
  /\ [](\A j \in 1..Len(c2s) : \E c \in 1..Len(calls) : Issued(c) /\ calls[c].id = c2s[j].id)
  /\ [][\A c \in 1..Len(calls) :
          /\ (calls[c].st = "connecting" /\ calls'[c].st = "issued") =>
               /\ ws' > 0 /\ socks'[ws'].phase = "OPEN"
               /\ calls'[c].id \in pendingRequests'
               /\ \E j \in FramesOf(c2s', calls'[c].id) : c2s'[j].sock = ws'
          /\ (calls[c].st = "connecting" /\ calls'[c].st = "connectFailed") =>
               /\ calls'[c].outcome.kind = "reject"
               /\ calls'[c].outcome.name = "MCPConnectionError"
               /\ requestId' = requestId
               /\ c2s' = c2s
               /\ pendingRequests' = pendingRequests]_vars

\* C27: when the peer closes the connected socket, without a disconnect(),
\* with reconnection attempts left, then in that step every pending call (it
\* is in the table and not settled) is rejected with the connection-lost
\* error, the table is emptied, one reconnection attempt is counted and
\* scheduled and the state is 'reconnecting'; and from a state 'reconnecting' in which the peer can still
\* be reached the client gets to 'connected'.
LossLeadsToReconnection ==
  /\ [][\A s \in 1..Len(socks) :
          (/\ SocketClose(s)
           /\ s = ws /\ socks[s].phase = "OPEN"
           /\ ~userDisconnected
           /\ reconnectAttempts < maxReconnectAttempts) =>
            /\ pendingRequests' = {}
            /\ \A c \in 1..Len(calls) :
                 (calls[c].id \in pendingRequests /\ calls[c].outcome = NoOutcome) =>
                   calls'[c].outcome = ConnectionLost
            /\ reconnectAttempts' = reconnectAttempts + 1
            /\ ReconnectTimers(timers') = ReconnectTimers(timers) + 1
            /\ ReportedState' = "reconnecting"]_vars
  /\ (ReportedState = "reconnecting" /\ Len(socks) < MaxSockets)
       ~> (ReportedState = "connected")

\* C27 witness: the first socket was closed by the peer with a call pending,
\* which was rejected, and the socket a reconnection timer opened is connected
ReconnectedAfterLoss ==
  /\ Len(socks) = 2
  /\ socks[1].phase = "CLOSED"
  /\ socks[2].phase = "OPEN" /\ socks[2].auto
  /\ ReportedState = "connected"
  /\ \E c \in 1..Len(calls) : calls[c].settles = << "lost" >>

\* C28: events of a superseded socket.  While the current socket is open, an
\* open, error, close or message event of another socket the client created
\* earlier settles no call, leaves the pending table, reconnectAttempts and
\* isConnecting as they are and sets no reconnection timer.
SupersededEventsInert ==
  [][\A s \in 1..Len(socks) :
       (/\ ws > 0 /\ socks[ws].phase = "OPEN" /\ s < ws
        /\ \/ SocketOpen(s) \/ SocketFail(s) \/ SocketClose(s)
           \/ \E i \in 1..Len(s2c) : s2c[i].sock = s /\ Deliver(i)) =>
         /\ pendingRequests' = pendingRequests
         /\ \A c \in 1..Len(calls) : calls'[c].outcome = calls[c].outcome
         /\ reconnectAttempts' = reconnectAttempts
         /\ isConnecting' = isConnecting
         /\ ReconnectTimers(timers') = ReconnectTimers(timers)]_vars

\* the sockets the client created whose handshake is under way or completed
LiveSockets == {s \in 1..Len(socks) : socks[s].phase \in {"CONNECTING", "OPEN"}}

\* C29: single live socket.  At most one socket the client created is
\* connecting or open, and no step creates a socket while an earlier one is
\* still connecting or open.
SingleLiveSocket ==
  /\ [](Cardinality(LiveSockets) <= 1)
  /\ [][Len(socks') > Len(socks) => LiveSockets = {}]_vars

\* C30: design-store consistency.  A creation request that is dispatched gets
\* an id that no earlier design has, its design is in the store from that step
\* on and no other record of the store changes; as long as the delayed
\* response waits to be sent, the store holds exactly the design it carries.
DesignStoreConsistent ==
  /\ [][\A i \in 1..Len(c2s) :
          (ServerDispatch(i) /\ CreatesDesign(c2s[i].method) /\ ~Throws(c2s[i])) =>
            LET d == Answer(i).result IN
              /\ d.design \notin DOMAIN mockDesigns
              /\ d.design \in DOMAIN mockDesigns'
              /\ mockDesigns'[d.design] = d.title
              /\ \A k \in DOMAIN mockDesigns : mockDesigns'[k] = mockDesigns[k]]_vars
  /\ [](\A j \in 1..Len(srvTimers) :
          LET d == srvTimers[j].msg.result IN
            d.design \in DOMAIN mockDesigns /\ mockDesigns[d.design] = d.title)

====
